---- MODULE Spec2Model ----
(***************************************************************************)
(* A model of scripture (src/main.rs): the commit-message verifier, the    *)
(* staged-diff analyser, the commit-message generator and main's control   *)
(* flow.                                                                   *)
(*                                                                         *)
(* A Rust str is modelled as a sequence of chars (Unicode scalar values,   *)
(* each written as a one-element string; the non-ASCII ones are written    *)
(* by code point).  str::len() and str slicing count UTF-8 bytes, so every *)
(* char carries its encoded width.  Option<T> is a sequence of length at   *)
(* most one: None is <<>> and Some(x) is <<x>>.                            *)
(***************************************************************************)
EXTENDS Integers, Sequences, FiniteSets, TLC

VARIABLES
    cli,            \* Cli: message_string, message_file (each an Option)
    file_content,   \* environment: what fs::read_to_string finds at the path
    git,            \* environment: what running `git diff --cached` does
    pc,             \* main's position
    message,        \* Option: the text handed to verify_message
    result,         \* Option: the (bool, Vec<String>) the verifier returned
    diff_output,    \* Option<String> returned by get_git_diff
    changes,        \* Option<GitChanges> built by analyse_diff
    file_order,     \* iteration order of changes.file_changes (a HashMap)
    verb,           \* Option: the verb determine_commit_verb returned
    subject_line,   \* Option: generate_subject_line's outcome (a String or a panic)
    commit_message, \* Option: generate_message's outcome (a String or a panic)
    commit_md,      \* the file commit.md: writes attempted, last outcome, content
    stdout,         \* what println! wrote
    log,            \* what error!/info! were called with
    exit_code       \* Option: the process's exit status

vars == <<cli, file_content, git, pc, message, result, diff_output,
          changes, file_order, verb, subject_line, commit_message, commit_md, stdout,
          log, exit_code>>

None == <<>>

Some(x) == <<x>>

\* ------------------------------------------------------------------ chars

UpperAscii ==
    <<"A", "B", "C", "D", "E", "F", "G", "H", "I", "J", "K", "L", "M",
      "N", "O", "P", "Q", "R", "S", "T", "U", "V", "W", "X", "Y", "Z">>

LowerAscii ==
    <<"a", "b", "c", "d", "e", "f", "g", "h", "i", "j", "k", "l", "m",
      "n", "o", "p", "q", "r", "s", "t", "u", "v", "w", "x", "y", "z">>

\* U+00E9 (e acute) and U+00C9 (E acute) take two bytes in UTF-8, U+20AC
\* (the euro sign) three; every other char of the model is ASCII.
utf8_len(c) ==
    CASE c \in {"U+00E9", "U+00C9"} -> 2
      [] c = "U+20AC" -> 3
      [] OTHER -> 1

is_uppercase(c) ==
    \/ \E i \in DOMAIN UpperAscii : UpperAscii[i] = c
    \/ c = "U+00C9"

is_whitespace(c) == c \in {" ", "\t", "\n", "\r"}

char_to_lowercase(c) ==
    IF c = "U+00C9" THEN "U+00E9"
    ELSE IF \E i \in DOMAIN UpperAscii : UpperAscii[i] = c
         THEN LowerAscii[CHOOSE i \in DOMAIN UpperAscii : UpperAscii[i] = c]
         ELSE c

\* ---------------------------------------------------------------- strings

\* F(v), with v computed once (a quantifier binds a value, a LET a formula).
Bind(v, F(_)) == CHOOSE r \in {F(x) : x \in {v}} : TRUE

\* The elements of a set of integers, ascending.
Ascending(S) ==
    LET asc(T) == [k \in 1..Cardinality(T) |->
                    CHOOSE i \in T : Cardinality({j \in T : j < i}) = k - 1]
    IN  Bind(S, asc)

Min(S) == CHOOSE x \in S : \A y \in S : x <= y

Max(S) == CHOOSE x \in S : \A y \in S : x >= y

\* str::len(): the length in bytes of the UTF-8 encoding.
str_len(s) ==
    Len(s) + Cardinality({i \in DOMAIN s : utf8_len(s[i]) = 2})
           + 2 * Cardinality({i \in DOMAIN s : utf8_len(s[i]) = 3})

\* The byte offset at which char i of s starts (Len(s) + 1: the end of s).
byte_offset(s, i) == str_len(SubSeq(s, 1, i - 1))

is_char_boundary(s, n) == \E i \in 1..(Len(s) + 1) : byte_offset(s, i) = n

\* &s[..n] where n is a char boundary of s.
byte_prefix(s, n) ==
    SubSeq(s, 1, (CHOOSE i \in 1..(Len(s) + 1) : byte_offset(s, i) = n) - 1)

to_lowercase(s) == [i \in DOMAIN s |-> char_to_lowercase(s[i])]

starts_with(s, p) == Len(s) >= Len(p) /\ SubSeq(s, 1, Len(p)) = p

ends_with(s, p) ==
    Len(s) >= Len(p) /\ SubSeq(s, Len(s) - Len(p) + 1, Len(s)) = p

contains(s, w) ==
    \E i \in 1..(Len(s) - Len(w) + 1) : SubSeq(s, i, i + Len(w) - 1) = w

NonWhitespace(s) == {i \in DOMAIN s : ~is_whitespace(s[i])}

trim(s) ==
    IF NonWhitespace(s) = {} THEN <<>>
    ELSE SubSeq(s, Min(NonWhitespace(s)), Max(NonWhitespace(s)))

\* split_whitespace().next(): None when s holds no token.
first_token(s) ==
    IF NonWhitespace(s) = {} THEN None
    ELSE LET b == Min(NonWhitespace(s))
             ws == {i \in DOMAIN s : i > b /\ is_whitespace(s[i])}
         IN  Some(SubSeq(s, b, IF ws = {} THEN Len(s) ELSE Min(ws) - 1))

\* split_whitespace().last()
last_token(s) ==
    IF NonWhitespace(s) = {} THEN None
    ELSE LET e == Max(NonWhitespace(s))
             ws == {i \in DOMAIN s : i < e /\ is_whitespace(s[i])}
         IN  Some(SubSeq(s, IF ws = {} THEN 1 ELSE Max(ws) + 1, e))

\* trim_start_matches(p): p removed from the start for as long as it is there.
RECURSIVE trim_start_matches(_, _)
trim_start_matches(s, p) ==
    IF p # <<>> /\ starts_with(s, p)
    THEN trim_start_matches(SubSeq(s, Len(p) + 1, Len(s)), p)
    ELSE s

\* The positions of the "\n" chars of s, ascending.
Newlines(s) == Ascending({i \in DOMAIN s : s[i] = "\n"})

\* str::lines(): the text cut after each "\n"; a line loses its "\n" and then
\* a "\r" before it; the text after the last "\n" is a line when non-empty.
lines(s) ==
    LET cut(nl) ==
            LET n == Len(nl) + (IF s # <<>> /\ s[Len(s)] # "\n" THEN 1 ELSE 0)
                first(k) == IF k = 1 THEN 1 ELSE nl[k - 1] + 1
                last(k) ==
                    IF k > Len(nl) THEN Len(s)
                    ELSE IF nl[k] - 1 >= first(k) /\ s[nl[k] - 1] = "\r"
                    THEN nl[k] - 2
                    ELSE nl[k] - 1
            IN  [k \in 1..n |-> SubSeq(s, first(k), last(k))]
    IN  Bind(Newlines(s), cut)

\* [T].join(sep)
RECURSIVE join(_, _)
join(parts, sep) ==
    IF parts = <<>> THEN <<>>
    ELSE IF Len(parts) = 1 THEN parts[1]
    ELSE parts[1] \o sep \o join(Tail(parts), sep)

\* Iterator::filter over a sequence: the elements passing Test, in order.
Filter(s, Test(_)) ==
    LET pick(idx) == [k \in DOMAIN idx |-> s[idx[k]]]
    IN  Bind(Ascending({i \in DOMAIN s : Test(s[i])}), pick)

\* The orders in which a HashMap holding the keys S may iterate.
Orders(S) ==
    {p \in [1..Cardinality(S) -> S] : \A x \in S : \E i \in DOMAIN p : p[i] = x}

\* ----------------------------------------------------------------- Config

S_Add == <<"A", "d", "d">>

S_Cut == <<"C", "u", "t">>

S_Fix == <<"F", "i", "x">>

\* The keys of config.standard_verbs.
standard_verbs == {S_Add, S_Cut, S_Fix}

\* config.indicators: category -> keywords.
indicators == [fix |-> <<<<"f", "i", "x">>, <<"b", "u", "g">>, <<"i", "s", "s", "u", "e">>>>]

\* config.verb_mapping: category -> canonical verb.
verb_mapping == [fix |-> S_Fix]

\* config.message_template
references_section ==
    <<"#", " ", "R", "e", "f", "e", "r", "e", "n", "c", "e", "s", " ", "[", "R", "e", "q", "u", "i", "r", "e", "d", "]", "\n", "#", " ", "L", "i", "n", "k", " ", "t", "o", " ", "r", "e", "l", "a", "t", "e", "d", " ", "t", "i", "c", "k", "e", "t", "s", ",", " ", "d", "o", "c", "s", ",", " ", "o", "r", " ", "d", "i", "s", "c", "u", "s", "s", "i", "o", "n", "s", "\n", "C", "l", "o", "s", "e", "s", " ", "#", "\n", "R", "e", "l", "a", "t", "e", "s", " ", "t", "o", " ", "#", "\n", "S", "e", "e", " ", "a", "l", "s", "o", ":", " ">>

testing_section ==
    <<"#", " ", "T", "e", "s", "t", "i", "n", "g", " ", "I", "n", "s", "t", "r", "u", "c", "t", "i", "o", "n", "s", " ", "[", "O", "p", "t", "i", "o", "n", "a", "l", "]", "\n", "#", " ", "D", "e", "s", "c", "r", "i", "b", "e", " ", "h", "o", "w", " ", "t", "o", " ", "t", "e", "s", "t", " ", "t", "h", "e", "s", "e", " ", "c", "h", "a", "n", "g", "e", "s", "\n", "1", ".", " ", "S", "t", "e", "p", "s", " ", "t", "o", " ", "t", "e", "s", "t", "\n", "2", ".", " ", "E", "x", "p", "e", "c", "t", "e", "d", " ", "o", "u", "t", "c", "o", "m", "e", "s", "\n", "3", ".", " ", "E", "d", "g", "e", " ", "c", "a", "s", "e", "s", " ", "t", "o", " ", "v", "e", "r", "i", "f", "y">>

dependencies_section ==
    <<"#", " ", "D", "e", "p", "e", "n", "d", "e", "n", "c", "i", "e", "s", " ", "[", "O", "p", "t", "i", "o", "n", "a", "l", "]", "\n", "#", " ", "L", "i", "s", "t", " ", "a", "n", "y", " ", "p", "r", "e", "r", "e", "q", "u", "i", "s", "i", "t", "e", " ", "c", "h", "a", "n", "g", "e", "s", " ", "o", "r", " ", "d", "e", "p", "e", "n", "d", "e", "n", "c", "i", "e", "s", "\n", "-", " ", "[", " ", "]", " ", "D", "a", "t", "a", "b", "a", "s", "e", " ", "m", "i", "g", "r", "a", "t", "i", "o", "n", "s", "\n", "-", " ", "[", " ", "]", " ", "C", "o", "n", "f", "i", "g", "u", "r", "a", "t", "i", "o", "n", " ", "u", "p", "d", "a", "t", "e", "s", "\n", "-", " ", "[", " ", "]", " ", "E", "x", "t", "e", "r", "n", "a", "l", " ", "s", "e", "r", "v", "i", "c", "e", " ", "c", "h", "a", "n", "g", "e", "s">>

changes_section ==
    <<"#", " ", "C", "h", "a", "n", "g", "e", "s", " ", "O", "v", "e", "r", "v", "i", "e", "w", " ", "[", "R", "e", "q", "u", "i", "r", "e", "d", "]", "\n", "#", " ", "B", "r", "i", "e", "f", "l", "y", " ", "d", "e", "s", "c", "r", "i", "b", "e", " ", "t", "h", "e", " ", "p", "u", "r", "p", "o", "s", "e", " ", "o", "f", " ", "t", "h", "e", "s", "e", " ", "c", "h", "a", "n", "g", "e", "s">>

breaking_section ==
    <<"#", " ", "B", "r", "e", "a", "k", "i", "n", "g", " ", "C", "h", "a", "n", "g", "e", "s", " ", "[", "R", "e", "q", "u", "i", "r", "e", "d", " ", "i", "f", " ", "a", "n", "y", "]", "\n", "#", " ", "L", "i", "s", "t", " ", "a", "n", "y", " ", "b", "a", "c", "k", "w", "a", "r", "d", "-", "i", "n", "c", "o", "m", "p", "a", "t", "i", "b", "l", "e", " ", "c", "h", "a", "n", "g", "e", "s", " ", "a", "n", "d", " ", "m", "i", "g", "r", "a", "t", "i", "o", "n", " ", "s", "t", "e", "p", "s">>

\* --------------------------------------------------- CommitMessageVerifier

VERIFY_SUBJECT_MAX == 50

VERIFY_BODY_MAX == 72

\* An error string: its text, the line number formatted into it (0: none) and
\* the verbs joined into it.
Error(text, line, verbs) == [text |-> text, line |-> line, verbs |-> verbs]

E_EMPTY == Error("Empty commit message", 0, <<>>)

E_LENGTH == Error("Subject line exceeds 50 characters", 0, <<>>)

E_VERB(keys) == Error("Subject must start with standard verb: {}", 0, keys)

E_FULL_STOP == Error("Subject line ends with a full stop", 0, <<>>)

E_CAPITAL == Error("Subject line not capitalised", 0, <<>>)

E_BLANK_LINE == Error("No blank line between subject and body", 0, <<>>)

E_BODY_LINE(n) == Error("Line {} exceeds 72 characters", n, <<>>)

E_READ == Error("Failed to read file: {}", 0, <<>>)

\* verify_message(message) with config.standard_verbs.keys() iterating in the
\* order keys; the result is the pair (bool, Vec<String>).
verify_message(msg, keys) ==
    LET verify(ls) ==
            LET subject == ls[1]
                first_word == IF first_token(subject) = None THEN <<>>
                              ELSE first_token(subject)[1]
                body == [j \in 1..(Len(ls) - 2) |-> j + 2]
                long(n) == ls[n] # <<>> /\ str_len(ls[n]) > VERIFY_BODY_MAX
                long_lines == Filter(body, long)
                errors ==
                    (IF str_len(subject) > VERIFY_SUBJECT_MAX
                     THEN <<E_LENGTH>> ELSE <<>>)
                    \o (IF first_word \notin standard_verbs
                        THEN <<E_VERB(keys)>> ELSE <<>>)
                    \o (IF ends_with(subject, <<".">>)
                        THEN <<E_FULL_STOP>> ELSE <<>>)
                    \o (IF ~(subject # <<>> /\ is_uppercase(subject[1]))
                        THEN <<E_CAPITAL>> ELSE <<>>)
                    \o (IF Len(ls) >= 2 /\ ls[2] # <<>>
                        THEN <<E_BLANK_LINE>> ELSE <<>>)
                    \o [j \in DOMAIN long_lines |-> E_BODY_LINE(long_lines[j])]
            IN  IF ls = <<>> THEN <<FALSE, <<E_EMPTY>>>>
                ELSE <<errors # <<>>, errors>>
    IN  Bind(lines(msg), verify)

\* verify_file(path): content is what fs::read_to_string returned (None: Err).
verify_file(content, keys) ==
    IF content # None THEN verify_message(content[1], keys)
    ELSE <<FALSE, <<E_READ>>>>

\* ----------------------------------------------------------- GitDiffAnalyzer

\* What running `git diff --cached` did: whether the process could be
\* started, its exit status, whether its stdout is valid UTF-8, and the text.
GitRun(spawned, status, utf8, text) ==
    [spawned |-> spawned, status |-> status, utf8 |-> utf8, stdout |-> text]

\* get_git_diff(): Command::output().ok()?, then String::from_utf8(..).ok().
get_git_diff(run) ==
    IF ~run.spawned THEN None
    ELSE IF ~run.utf8 THEN None
    ELSE Some(run.stdout)

breaking_indicators ==
    <<<<"r", "e", "m", "o", "v", "e">>, <<"d", "e", "l", "e", "t", "e">>, <<"d", "e", "p", "r", "e", "c", "a", "t", "e">>, <<"b", "r", "e", "a", "k">>, <<"c", "h", "a", "n", "g", "e">>, <<"r", "e", "n", "a", "m", "e">>,
      <<"r", "e", "f", "a", "c", "t", "o", "r">>, <<"d", "r", "o", "p">>, <<"m", "i", "g", "r", "a", "t", "e">>>>

is_breaking_change(change) ==
    LET change_lower == to_lowercase(change)
    IN  \E i \in DOMAIN breaking_indicators :
            contains(change_lower, breaking_indicators[i])

\* format!("* Breaking change in {}:\n  {}", file, change)
breaking_entry(file, change) ==
    <<"*", " ", "B", "r", "e", "a", "k", "i", "n", "g", " ", "c", "h", "a", "n", "g", "e", " ", "i", "n", " ">> \o file \o <<":", "\n", " ", " ">> \o change

\* One iteration of analyse_diff's loop over the lines of the diff.
analyse_line(acc, line) ==
    IF starts_with(line, <<"d", "i", "f", "f", " ", "-", "-", "g", "i", "t">>)
    THEN [acc EXCEPT !.current_file =
            IF last_token(line) = None THEN None
            ELSE Some(trim_start_matches(last_token(line)[1], <<"b", "/">>))]
    ELSE IF starts_with(line, <<"+">>) /\ ~starts_with(line, <<"+", "+", "+">>)
                                     /\ acc.current_file # None
    THEN LET file == acc.current_file[1]
             change == trim(SubSeq(line, 2, Len(line)))
         IN  IF change = <<>> THEN acc
             ELSE [acc EXCEPT
                    !.file_changes =
                        IF file \in DOMAIN @
                        THEN [@ EXCEPT ![file] = Append(@, change)]
                        ELSE @ @@ (file :> <<change>>),
                    !.breaking_changes =
                        IF is_breaking_change(change)
                        THEN Append(@, breaking_entry(file, change))
                        ELSE @]
    ELSE acc

RECURSIVE analyse_lines(_, _)
analyse_lines(acc, ls) ==
    IF ls = <<>> THEN acc
    ELSE analyse_lines(analyse_line(acc, Head(ls)), Tail(ls))

\* GitChanges: file_changes is a HashMap (a function on the files it holds).
analyse_diff(diff) ==
    LET acc == analyse_lines([file_changes |-> <<>>, breaking_changes |-> <<>>,
                              current_file |-> None], lines(diff))
    IN  [file_changes |-> acc.file_changes,
         breaking_changes |-> acc.breaking_changes]

has_changes(ch) == DOMAIN ch.file_changes # {}

\* The iteration order of config.indicators, a HashMap with one key.
indicator_order == <<"fix">>

\* file_changes.values().flatten() with the map iterating in `order`.
RECURSIVE flatten_values(_, _)
flatten_values(file_changes, order) ==
    IF order = <<>> THEN <<>>
    ELSE file_changes[Head(order)] \o flatten_values(file_changes, Tail(order))

\* determine_commit_verb without the to_lowercase of line 247.
determine_commit_verb_case_sensitive(file_changes, order) ==
    LET vals == flatten_values(file_changes, order)
        all_changes == join(vals, <<" ">>)
        hit(cat) == \E i \in DOMAIN indicators[cat] :
                        contains(all_changes, indicators[cat][i])
        hits == Filter(indicator_order, hit)
    IN  IF hits = <<>> THEN S_Add
        ELSE IF hits[1] \in DOMAIN verb_mapping THEN verb_mapping[hits[1]]
        ELSE S_Add

determine_commit_verb(file_changes, order) ==
    LET vals == flatten_values(file_changes, order)
        all_changes == join([i \in DOMAIN vals |-> to_lowercase(vals[i])], <<" ">>)
        hit(cat) == \E i \in DOMAIN indicators[cat] :
                        contains(all_changes, indicators[cat][i])
        hits == Filter(indicator_order, hit)
    IN  IF hits = <<>> THEN S_Add
        ELSE IF hits[1] \in DOMAIN verb_mapping THEN verb_mapping[hits[1]]
        ELSE S_Add

\* ----------------------------------------------------- CommitMessageGenerator

GEN_SUBJECT_MAX == 50

GEN_SUBJECT_CUT == 47

WRAP_WIDTH == 72

CHANGES_SHOWN == 3

\* A call's outcome: the value it returned, or a panic.
Ok(v) == [panic |-> FALSE, value |-> v]

Panic == [panic |-> TRUE, value |-> <<>>]

\* generate_subject_line without the cut of lines 290-291.
generate_subject_line_uncut(ch, order) ==
    LET v == determine_commit_verb(ch.file_changes, order)
        nonempty(f) == ch.file_changes[f] # <<>>
        significant_changes == Filter(order, nonempty)
        description ==
            IF significant_changes = <<>> THEN <<"c", "o", "d", "e", "b", "a", "s", "e">>
            ELSE to_lowercase(trim(ch.file_changes[significant_changes[1]][1]))
    IN  Ok(v \o <<" ">> \o description)

generate_subject_line(ch, order) ==
    LET v == determine_commit_verb(ch.file_changes, order)
        nonempty(f) == ch.file_changes[f] # <<>>
        significant_changes == Filter(order, nonempty)
        description ==
            IF significant_changes = <<>> THEN <<"c", "o", "d", "e", "b", "a", "s", "e">>
            ELSE to_lowercase(trim(ch.file_changes[significant_changes[1]][1]))
        subject == v \o <<" ">> \o description
    IN  IF str_len(subject) > GEN_SUBJECT_MAX
        THEN IF is_char_boundary(subject, GEN_SUBJECT_CUT)
             THEN Ok(byte_prefix(subject, GEN_SUBJECT_CUT) \o <<".", ".", ".">>)
             ELSE Panic
        ELSE Ok(subject)

\* str::split('\n')
split_newline(s) ==
    LET cut(nl) ==
            LET first(k) == IF k = 1 THEN 1 ELSE nl[k - 1] + 1
                last(k) == IF k > Len(nl) THEN Len(s) ELSE nl[k] - 1
            IN  [k \in 1..(Len(nl) + 1) |-> SubSeq(s, first(k), last(k))]
    IN  Bind(Newlines(s), cut)

trim_end(s) ==
    IF NonWhitespace(s) = {} THEN <<>> ELSE SubSeq(s, 1, Max(NonWhitespace(s)))

\* textwrap's greedy wrap of one line: a line that fits is kept; a longer one
\* is cut at the last space that leaves at most `width` columns before it, or,
\* when its first word is longer than that, after `width` columns.
RECURSIVE wrap_line(_, _)
wrap_line(line, width) ==
    IF Len(line) <= width THEN <<line>>
    ELSE LET spaces == {i \in 2..(width + 1) : line[i] = " "}
             cut == IF spaces = {} THEN width ELSE Max(spaces) - 1
             rest == IF spaces = {} THEN SubSeq(line, width + 1, Len(line))
                     ELSE SubSeq(line, Max(spaces) + 1, Len(line))
         IN  <<trim_end(SubSeq(line, 1, cut))>>
             \o (IF trim(rest) = <<>> THEN <<>>
                 ELSE wrap_line(SubSeq(rest, Min(NonWhitespace(rest)), Len(rest)),
                                width))

RECURSIVE concat(_)
concat(seqs) == IF seqs = <<>> THEN <<>> ELSE Head(seqs) \o concat(Tail(seqs))

\* textwrap::fill(text, width)
fill(text, width) ==
    LET ls == split_newline(text)
    IN  join(concat([k \in DOMAIN ls |-> wrap_line(ls[k], width)]), <<"\n">>)

wrap_body_text(text) == fill(text, WRAP_WIDTH)

\* changes_list.iter().take(3), each as "  - {}\n"
shown_changes(changes_list) ==
    concat([i \in 1..(IF Len(changes_list) < CHANGES_SHOWN THEN Len(changes_list)
                      ELSE CHANGES_SHOWN) |->
                <<" ", " ", "-", " ">> \o wrap_body_text(changes_list[i]) \o <<"\n">>])

generate_message(ch, order) ==
    LET subject == generate_subject_line(ch, order)
        changes_text ==
            changes_section \o <<"\n", "\n">>
            \o concat([i \in DOMAIN order |->
                        <<"*", " ", "I", "n", " ">> \o order[i] \o <<":", "\n">>
                        \o shown_changes(ch.file_changes[order[i]])])
        breaking ==
            breaking_section \o <<"\n", "\n">>
            \o concat([i \in DOMAIN ch.breaking_changes |->
                        wrap_body_text(ch.breaking_changes[i]) \o <<"\n">>])
        sections ==
            <<references_section, changes_text>>
            \o (IF ch.breaking_changes # <<>> THEN <<breaking>> ELSE <<>>)
            \o <<testing_section, dependencies_section>>
    IN  IF subject.panic THEN Panic
        ELSE Ok(subject.value \o <<"\n", "\n">> \o join(sections, <<"\n", "\n">>))

\* ------------------------------------------------------------------ inputs

\* The longest tail (lines after the subject) of a message to verify.
MaxTailLines == 3

\* The most lines of a staged diff.
MaxDiffLines == 3

Filler(n) == [i \in 1..n |-> "x"]

SeqsUpTo(S, n) == UNION {[1..k -> S] : k \in 0..n}

\* Subjects on both sides of the 50 limit, in chars and in bytes, and with
\* each single-line rule kept and broken.
Subjects ==
    { <<>>, <<"f", "i", "x", " ", "b", "u", "g", ".">>, <<"A", "d", "d", " ", "x">>, <<"a", "d", "d", " ", "x">>, <<"U", "p", "d", "a", "t", "e", " ", "x">>, <<"A", "d", "d", " ", "f", "e", "a", "t", "u", "r", "e", ".">>,
      <<" ", "F", "i", "x", " ", "y">>,
      <<"A", "d", "d", " ">> \o Filler(VERIFY_SUBJECT_MAX - 4),
      <<"A", "d", "d", " ">> \o Filler(VERIFY_SUBJECT_MAX - 3),
      <<"A", "d", "d", " ">> \o Filler(VERIFY_SUBJECT_MAX - 5) \o <<"U+00E9">>,
      <<"f", "i", "x", " ">> \o Filler(VERIFY_SUBJECT_MAX - 4) \o <<".">> }

\* Lines after the subject on both sides of the 72 limit.
TailLines ==
    { <<>>,
      Filler(VERIFY_BODY_MAX), Filler(VERIFY_BODY_MAX + 1),
      Filler(VERIFY_BODY_MAX - 1) \o <<"U+00E9">> }

Messages ==
    {join(<<s>> \o t, <<"\n">>) : s \in Subjects, t \in SeqsUpTo(TailLines, MaxTailLines)}

\* What a message file may hold.
FileMessages ==
    {join(<<s>> \o t, <<"\n">>) \o e :
        s \in Subjects, t \in SeqsUpTo(TailLines, 1), e \in {<<>>, <<"\\", "r", "\n">>}}

DiffLines ==
    { <<"d", "i", "f", "f", " ", "-", "-", "g", "i", "t", " ", "a", "/", "x", ".", "t", "x", "t", " ", "b", "/", "x", ".", "t", "x", "t">>,
      <<"d", "i", "f", "f", " ", "-", "-", "g", "i", "t", " ", "a", "/", "b", "/", "y", ".", "r", "s", " ", "b", "/", "b", "/", "y", ".", "r", "s">>,
      <<"+", "+", "+", " ", "b", "/", "x", ".", "t", "x", "t">>,
      <<"+", "r", "e", "m", "o", "v", "e", " ", "o", "l", "d", " ", "h", "e", "l", "p", "e", "r">>,
      <<"+", " ", " ", "F", "i", "x", " ", "B", "U", "G", " ", "i", "n", " ", "p", "a", "r", "s", "e", "r", " ">>,
      <<"+">> \o Filler(GEN_SUBJECT_MAX - 4),
      <<"+", "r", "e", "s", "o", "l", "v", "e", " ", "i", "s", "s", "u", "e", " ">> \o Filler(GEN_SUBJECT_MAX - 17),
      <<"+">> \o Filler(GEN_SUBJECT_CUT - 5) \o <<"U+00E9">> \o <<" ", "t", "a", "i", "l">> }

\* A diff: at most MaxDiffLines lines, after a first header or after none.
Diffs ==
    {join(h \o d, <<"\n">>) :
        h \in {<<>>, <<<<"d", "i", "f", "f", " ", "-", "-", "g", "i", "t", " ", "a", "/", "x", ".", "t", "x", "t", " ", "b", "/", "x", ".", "t", "x", "t">>>>},
        d \in SeqsUpTo(DiffLines, MaxDiffLines)}

GitRuns ==
    {GitRun(TRUE, 0, TRUE, d) : d \in Diffs}
    \cup {GitRun(TRUE, 128, TRUE, d) : d \in {join(l, <<"\n">>) : l \in SeqsUpTo(DiffLines, 1)}}
    \cup {GitRun(TRUE, s, FALSE, <<>>) : s \in {0, 128}}
    \cup {GitRun(FALSE, 0, FALSE, <<>>)}

\* -------------------------------------------------------------------- main

Entry(level, text, arg) == [level |-> level, text |-> text, arg |-> arg]

NoFile == [writes |-> 0, ok |-> FALSE, content |-> None]

Init ==
    /\ pc = "start"
    /\ \/ /\ cli \in {[message_string |-> Some(m), message_file |-> None] :
                        m \in Messages}
          /\ file_content = None
          /\ git = GitRun(FALSE, 0, FALSE, <<>>)
       \/ /\ cli \in {[message_string |-> o, message_file |-> Some("path")] :
                        o \in {None, Some(<<"f", "i", "x", " ", "b", "u", "g", ".">>)}}
          /\ file_content \in {None} \cup {Some(m) : m \in FileMessages}
          /\ git = GitRun(FALSE, 0, FALSE, <<>>)
       \/ /\ cli = [message_string |-> None, message_file |-> None]
          /\ file_content = None
          /\ git \in GitRuns
    /\ message = None
    /\ result = None
    /\ diff_output = None
    /\ changes = None
    /\ file_order = <<>>
    /\ verb = None
    /\ subject_line = None
    /\ commit_message = None
    /\ commit_md = NoFile
    /\ stdout = <<>>
    /\ log = <<>>
    /\ exit_code = None

\* What main does with the verifier's (valid, errors): lines 340-348, 354-362.
Report(r) ==
    IF ~r[1]
    THEN /\ log' = <<Entry("error", "Commit message validation failed:", <<>>)>>
                   \o [i \in DOMAIN r[2] |-> Entry("error", "- {}", <<r[2][i]>>)]
         /\ exit_code' = Some(1)
    ELSE /\ log' = <<Entry("info", "Commit message is valid", <<>>)>>
         /\ exit_code' = Some(0)

\* main, lines 337-349: -m <string>
VerifyString ==
    /\ pc = "start"
    /\ cli.message_string # None
    /\ \E keys \in Orders(standard_verbs) :
        \E r \in {verify_message(cli.message_string[1], keys)} :
            /\ message' = cli.message_string
            /\ result' = Some(r)
            /\ Report(r)
    /\ pc' = "done"
    /\ UNCHANGED <<cli, file_content, git, diff_output, changes, file_order,
                   verb, subject_line, commit_message, commit_md, stdout>>

\* main, lines 351-363: -f <path>
VerifyFile ==
    /\ pc = "start"
    /\ cli.message_string = None
    /\ cli.message_file # None
    /\ \E keys \in Orders(standard_verbs) :
        \E r \in {verify_file(file_content, keys)} :
            /\ message' = file_content
            /\ result' = Some(r)
            /\ Report(r)
    /\ pc' = "done"
    /\ UNCHANGED <<cli, file_content, git, diff_output, changes, file_order,
                   verb, subject_line, commit_message, commit_md, stdout>>

\* main, lines 368-374
CollectDiff ==
    /\ pc = "start"
    /\ cli.message_string = None
    /\ cli.message_file = None
    /\ diff_output' = get_git_diff(git)
    /\ IF diff_output' = None
       THEN /\ log' = <<Entry("error",
                "No staged changes found. Please stage changes with 'git add' first.",
                <<>>)>>
            /\ exit_code' = Some(1)
            /\ pc' = "done"
       ELSE /\ pc' = "collected"
            /\ UNCHANGED <<log, exit_code>>
    /\ UNCHANGED <<cli, file_content, git, message, result, changes, file_order,
                   verb, subject_line, commit_message, commit_md, stdout>>

\* main, lines 376-380
AnalyseDiff ==
    /\ pc = "collected"
    /\ \E ch \in {analyse_diff(diff_output[1])} :
        /\ changes' = Some(ch)
        /\ file_order' \in Orders(DOMAIN ch.file_changes)
    /\ IF ~has_changes(changes'[1])
       THEN /\ log' = <<Entry("error", "No changes detected in diff.", <<>>)>>
            /\ exit_code' = Some(1)
            /\ pc' = "done"
       ELSE /\ pc' = "analysed"
            /\ UNCHANGED <<log, exit_code>>
    /\ UNCHANGED <<cli, file_content, git, message, result, diff_output, verb,
                   subject_line, commit_message, commit_md, stdout>>

\* main, line 382; a panic ends the process with status 101.
GenerateMessage ==
    /\ pc = "analysed"
    /\ verb' = Some(determine_commit_verb(changes[1].file_changes, file_order))
    /\ \E s \in {generate_subject_line(changes[1], file_order)} :
        subject_line' = Some(s)
    /\ \E m \in {generate_message(changes[1], file_order)} :
        commit_message' = Some(m)
    /\ IF commit_message'[1].panic
       THEN /\ exit_code' = Some(101)
            /\ pc' = "done"
       ELSE /\ pc' = "generated"
            /\ UNCHANGED exit_code
    /\ UNCHANGED <<cli, file_content, git, message, result, diff_output, changes,
                   file_order, commit_md, stdout, log>>

\* WriteCommit with the println! of line 387 moved out of the Ok arm.
WriteCommit_EchoOnFailure ==
    /\ pc = "generated"
    /\ \/ /\ commit_md' = [writes |-> commit_md.writes + 1, ok |-> TRUE,
                           content |-> Some(commit_message[1].value)]
          /\ stdout' = <<commit_message[1].value>>
          /\ log' = <<Entry("info", "\n=== Generated Commit Message ===\n", <<>>),
                      Entry("info", "\n===========================", <<>>),
                      Entry("info", "{}", <<"COMMIT_INSTRUCTIONS">>)>>
          /\ exit_code' = Some(0)
       \/ /\ \E left \in {commit_md.content, Some(<<>>)} :
                commit_md' = [writes |-> commit_md.writes + 1, ok |-> FALSE,
                              content |-> left]
          /\ log' = <<Entry("error", "Failed to write commit message: {}", <<>>)>>
          /\ exit_code' = Some(1)
          /\ stdout' = <<commit_message[1].value>>
    /\ pc' = "done"
    /\ UNCHANGED <<cli, file_content, git, message, result, diff_output, changes,
                   file_order, verb, subject_line, commit_message>>

\* main, lines 384-395: fs::write creates (truncates) commit.md, then writes.
WriteCommit ==
    /\ pc = "generated"
    /\ \/ /\ commit_md' = [writes |-> commit_md.writes + 1, ok |-> TRUE,
                           content |-> Some(commit_message[1].value)]
          /\ stdout' = <<commit_message[1].value>>
          /\ log' = <<Entry("info", "\n=== Generated Commit Message ===\n", <<>>),
                      Entry("info", "\n===========================", <<>>),
                      Entry("info", "{}", <<"COMMIT_INSTRUCTIONS">>)>>
          /\ exit_code' = Some(0)
       \/ /\ \E left \in {commit_md.content, Some(<<>>)} :
                commit_md' = [writes |-> commit_md.writes + 1, ok |-> FALSE,
                              content |-> left]
          /\ log' = <<Entry("error", "Failed to write commit message: {}", <<>>)>>
          /\ exit_code' = Some(1)
          /\ UNCHANGED stdout
    /\ pc' = "done"
    /\ UNCHANGED <<cli, file_content, git, message, result, diff_output, changes,
                   file_order, verb, subject_line, commit_message>>

Next ==
    \/ VerifyString
    \/ VerifyFile
    \/ CollectDiff
    \/ AnalyseDiff
    \/ GenerateMessage
    \/ WriteCommit

Spec == Init /\ [][Next]_vars

\* ------------------------------------------------------------------ claims

VerifyMode == cli.message_string # None \/ cli.message_file # None

GenerateMode == ~VerifyMode

\* The texts of the errors of `errors` whose text is in `texts`, in order.
ErrorTexts(errors, texts) ==
    LET wanted(e) == e.text \in texts
        kept == Filter(errors, wanted)
    IN  [i \in DOMAIN kept |-> kept[i].text]

SingleLineTexts ==
    {E_LENGTH.text, E_VERB(<<>>).text, E_FULL_STOP.text, E_CAPITAL.text,
     E_BLANK_LINE.text}

\* C1: for every message text handed to verify_message, the empty one
\* included, the returned boolean is true exactly when the returned violation
\* list is non-empty, and the empty message returns
\* (true, ["Empty commit message"]).
C1_TrueIffViolations ==
    message # None =>
        /\ result[1][1] = (result[1][2] # <<>>)
        /\ message[1] = <<>> => result[1] = <<TRUE, <<E_EMPTY>>>>

\* C2: in verify mode the process exits with code 1 whenever the message
\* violates at least one rule or the file cannot be read, and exits with code
\* 0, reporting the message as valid, only when there is no violation.
C2_ExitCodeFollowsViolations ==
    (VerifyMode /\ pc = "done") =>
        /\ result[1][2] # <<>> => exit_code = Some(1)
        /\ exit_code = Some(0) =>
            /\ result[1][2] = <<>>
            /\ log = <<Entry("info", "Commit message is valid", <<>>)>>

\* C3: in generate mode commit.md is written at most once and only after the
\* collector returned diff text and the analysis found a file with a change;
\* when the collector returns nothing the run logs the instruction to stage
\* changes and exits 1 without writing; when the analysis finds no change it
\* exits 1 without writing; a failed write exits 1 without echoing; only a
\* successful write is followed by the echo of the full message and exit 0.
C3_GenerateWritesOnce ==
    GenerateMode =>
        /\ commit_md.writes <= 1
        /\ commit_md.writes = 1 =>
            /\ diff_output # None
            /\ changes # None /\ DOMAIN changes[1].file_changes # {}
        /\ (pc = "done" /\ diff_output = None) =>
            /\ exit_code = Some(1)
            /\ commit_md = NoFile /\ stdout = <<>>
            /\ \E i \in DOMAIN log :
                /\ log[i].level = "error"
                /\ log[i].text =
                    "No staged changes found. Please stage changes with 'git add' first."
        /\ (pc = "done" /\ changes # None /\ DOMAIN changes[1].file_changes = {}) =>
            /\ exit_code = Some(1)
            /\ commit_md = NoFile /\ stdout = <<>>
        /\ (commit_md.writes = 1 /\ ~commit_md.ok) =>
            /\ exit_code = Some(1)
            /\ stdout = <<>>
        /\ (stdout # <<>> \/ exit_code = Some(0)) =>
            /\ commit_md.writes = 1 /\ commit_md.ok
            /\ commit_md.content = Some(commit_message[1].value)
            /\ stdout = <<commit_message[1].value>>
            /\ exit_code = Some(0)
        /\ (pc = "done" /\ commit_md.writes = 1 /\ commit_md.ok) =>
            /\ stdout = <<commit_message[1].value>>
            /\ exit_code = Some(0)

\* C3's case: a run that wrote commit.md, echoed the message and exited 0.
C3_Witness ==
    /\ GenerateMode /\ pc = "done"
    /\ commit_md.writes = 1 /\ commit_md.ok
    /\ stdout # <<>> /\ exit_code = Some(0)

\* C4: for every non-empty message the single-line violations are, in this
\* order and each whatever the others: the length violation iff the subject
\* is longer than 50 characters, the standard-verb violation iff the first
\* whitespace-delimited token of the subject is not a key of the verb set, the
\* full-stop violation iff the subject ends with '.', the capitalisation
\* violation iff the first character is not uppercase, and the blank-line
\* violation iff a second line exists and is non-empty.
C4_SingleLineRules ==
    message # None =>
        \A ls \in {lines(message[1])} :
            ls # <<>> =>
                LET subj == ls[1]
                    token == first_token(subj)
                    expected ==
                        (IF Len(subj) > 50 THEN <<E_LENGTH.text>> ELSE <<>>)
                        \o (IF token = None
                               \/ ~(\E v \in standard_verbs : token = Some(v))
                            THEN <<E_VERB(<<>>).text>> ELSE <<>>)
                        \o (IF subj # <<>> /\ subj[Len(subj)] = "."
                            THEN <<E_FULL_STOP.text>> ELSE <<>>)
                        \o (IF subj = <<>> \/ ~is_uppercase(subj[1])
                            THEN <<E_CAPITAL.text>> ELSE <<>>)
                        \o (IF Len(ls) >= 2 /\ ls[2] # <<>>
                            THEN <<E_BLANK_LINE.text>> ELSE <<>>)
                IN  ErrorTexts(result[1][2], SingleLineTexts) = expected

\* C5: verify_message reports one body-length violation for each line at
\* 1-based position n >= 3 that is non-empty and longer than 72 characters,
\* naming that n, in ascending order of n, and no other body-length violation.
C5_BodyLengthViolations ==
    message # None =>
        \A ls \in {lines(message[1])} :
            LET body_error(e) == e.text = E_BODY_LINE(0).text
                reported == Filter(result[1][2], body_error)
                too_long == {n \in 3..Len(ls) : ls[n] # <<>> /\ Len(ls[n]) > 72}
            IN  /\ Len(reported) = Cardinality(too_long)
                /\ \A i \in DOMAIN reported : reported[i].line \in too_long
                /\ \A i, j \in DOMAIN reported :
                        i < j => reported[i].line < reported[j].line

\* The scan C6 describes, line by line: line i of the diff is a header, or an
\* added line with its text, and is counted for the file of the most recent
\* header, named by the header's last token without the leading "b/".
C6_Scan(ls) ==
    LET header(i) == starts_with(ls[i], <<"d", "i", "f", "f", " ", "-", "-", "g", "i", "t">>)
        headers_before(i) == {j \in 1..(i - 1) : header(j)}
        name(j) ==
            LET token == last_token(ls[j])[1]
            IN  IF starts_with(token, <<"b", "/">>) THEN SubSeq(token, 3, Len(token))
                ELSE token
        file(i) == name(Max(headers_before(i)))
        text(i) == trim(Tail(ls[i]))
        added(i) ==
            /\ ~header(i)
            /\ ls[i] # <<>> /\ ls[i][1] = "+"
            /\ ~starts_with(ls[i], <<"+", "+", "+">>)
            /\ headers_before(i) # {}
            /\ text(i) # <<>>
        is_added(i) == added(i)
        adds == Filter([i \in DOMAIN ls |-> i], is_added)
        files == {file(adds[k]) : k \in DOMAIN adds}
        breaks(i) ==
            \E w \in {<<"r", "e", "m", "o", "v", "e">>, <<"d", "e", "l", "e", "t", "e">>, <<"d", "e", "p", "r", "e", "c", "a", "t", "e">>, <<"b", "r", "e", "a", "k">>, <<"c", "h", "a", "n", "g", "e">>,
                      <<"r", "e", "n", "a", "m", "e">>, <<"r", "e", "f", "a", "c", "t", "o", "r">>, <<"d", "r", "o", "p">>, <<"m", "i", "g", "r", "a", "t", "e">>} :
                contains(to_lowercase(text(i)), w)
        is_break(i) == breaks(i)
        broken == Filter(adds, is_break)
    IN  [file_changes |->
            [f \in files |->
                LET of_f(i) == file(i) = f
                    mine == Filter(adds, of_f)
                IN  [k \in DOMAIN mine |-> text(mine[k])]],
         breaking_changes |->
            [k \in DOMAIN broken |->
                <<"*", " ", "B", "r", "e", "a", "k", "i", "n", "g", " ", "c", "h", "a", "n", "g", "e", " ", "i", "n", " ">> \o file(broken[k]) \o <<":", "\n", " ", " ">>
                \o text(broken[k])]]

\* C6: analyse_diff appends each added line (starting with '+' but not
\* '+++'), stripped of the marker and trimmed, if non-empty, to the change
\* list of the file named by the most recent 'diff --git' header (its last
\* whitespace-separated token without the leading 'b/'), in diff order, and a
\* breaking-change entry naming that file and text iff the text contains one
\* of the nine keywords, case-insensitively; every other line, and every
\* added line before any header, changes nothing.
C6_AnalyseDiffScan ==
    changes # None =>
        \A expected \in {Bind(lines(diff_output[1]), C6_Scan)} :
            /\ DOMAIN changes[1].file_changes = DOMAIN expected.file_changes
            /\ \A f \in DOMAIN expected.file_changes :
                    changes[1].file_changes[f] = expected.file_changes[f]
            /\ changes[1].breaking_changes = expected.breaking_changes

\* C7: get_git_diff returns the absent value when git cannot be started, when
\* its output is not valid UTF-8 and when it exits with a non-zero status; it
\* returns the diff text only when git ran, exited 0 and wrote valid UTF-8.
C7_AbsentOnEveryFailure ==
    (GenerateMode /\ pc # "start") =>
        IF git.spawned /\ git.utf8 /\ git.status = 0
        THEN diff_output = Some(git.stdout)
        ELSE diff_output = None

\* C8: generate_subject_line returns verb + " " + description when that is at
\* most 50 characters long and otherwise its first 47 characters followed by
\* "..."; the subject is never longer than 50 characters and the call never
\* fails.
C8_SubjectAtMostFifty ==
    subject_line # None =>
        LET fc == changes[1].file_changes
            description == to_lowercase(trim(fc[file_order[1]][1]))
            full == verb[1] \o <<" ">> \o description
        IN  /\ ~subject_line[1].panic
            /\ subject_line[1].value =
                IF Len(full) <= 50 THEN full ELSE SubSeq(full, 1, 47) \o <<".", ".", ".">>
            /\ Len(subject_line[1].value) <= 50

\* The categories of config.indicators with a keyword that is a substring of
\* the lower-cased change texts of `fc`, joined with spaces in `order`.
MatchingCategories(fc, order) ==
    LET texts == concat([i \in DOMAIN order |-> fc[order[i]]])
        all == join([i \in DOMAIN texts |-> to_lowercase(texts[i])], <<" ">>)
    IN  {c \in DOMAIN indicators :
            \E i \in DOMAIN indicators[c] : contains(all, indicators[c][i])}

\* C9: determine_commit_verb returns "Add" when no keyword of any category is
\* a substring of the lower-cased, space-joined change texts; otherwise the
\* canonical verb of a category with a matching keyword ("Add" if it has no
\* mapping). With the default policy {x.txt: ["remove old helper"]} selects
\* "Add" and any change text containing fix, bug or issue selects "Fix".
C9_VerbSelection ==
    verb # None =>
        LET fc == changes[1].file_changes
            matching == MatchingCategories(fc, file_order)
        IN  /\ matching = {} => verb = Some(S_Add)
            /\ matching # {} =>
                \E c \in matching :
                    verb = Some(IF c \in DOMAIN verb_mapping THEN verb_mapping[c]
                                ELSE S_Add)
            /\ (DOMAIN fc = {<<"x", ".", "t", "x", "t">>} /\ fc[<<"x", ".", "t", "x", "t">>] = <<<<"r", "e", "m", "o", "v", "e", " ", "o", "l", "d", " ", "h", "e", "l", "p", "e", "r">>>>)
                    => verb = Some(S_Add)
            /\ (\E f \in DOMAIN fc : \E i \in DOMAIN fc[f] :
                    \E w \in {<<"f", "i", "x">>, <<"b", "u", "g">>, <<"i", "s", "s", "u", "e">>} : contains(fc[f][i], w))
                    => verb = Some(S_Fix)

\* C9's case: a keyword matched only after lower-casing selected "Fix".
C9_Witness ==
    /\ verb = Some(S_Fix)
    /\ \E f \in DOMAIN changes[1].file_changes :
            changes[1].file_changes[f] = <<<<"F", "i", "x", " ", "B", "U", "G", " ", "i", "n", " ", "p", "a", "r", "s", "e", "r">>>>
    /\ Cardinality(DOMAIN changes[1].file_changes) = 1

\* C10: under the default policy the message generate_message has just built
\* from an analysed diff with at least one change, handed to verify_message,
\* never yields the subject-length, standard-verb, capitalisation or
\* blank-line violation, whatever the order of the verb set's keys.
C10_GeneratedSubjectPassesVerifier ==
    pc = "generated" =>
        \A keys \in Orders(standard_verbs) :
            \A r \in {verify_message(commit_message[1].value, keys)} :
                ErrorTexts(r[2], {E_LENGTH.text, E_VERB(<<>>).text,
                                  E_CAPITAL.text, E_BLANK_LINE.text}) = <<>>

\* C10's case: a generated message whose subject was cut to 47 bytes and
\* "...", which the verifier faults for the full stop only.
C10_Witness ==
    /\ pc = "generated"
    /\ ends_with(subject_line[1].value, <<".", ".", ".">>)
    /\ str_len(subject_line[1].value) = 50
    /\ \A r \in {verify_message(commit_message[1].value, <<S_Add, S_Cut, S_Fix>>)} :
            ErrorTexts(r[2], SingleLineTexts) = <<E_FULL_STOP.text>>

====
